---- MODULE Spec2Model ----
(***************************************************************************)
(* Space-time interaction tests of pointpats/spacetime.py: the legacy      *)
(* knox, mantel, jacquez and modified_knox functions, the _knox and        *)
(* _knox_local helpers and the Knox and Knox_Local classes built on them.  *)
(*                                                                         *)
(* One behaviour is one call of one test.  Arrays are functions over       *)
(* 0..n-1, as in the source.  Real numbers are exact fractions <<a, b>>    *)
(* (b = 0 is NaN).  The floating point rounding of numpy is modelled where  *)
(* it decides a result: in mantel, an r that equals the observed r in exact *)
(* arithmetic but was computed from a reordered vector may come out either  *)
(* side of it.  Elsewhere the doubles are exact or rounding is left out.    *)
(* The Poisson and hypergeometric p-values are numeric library primitives  *)
(* and are left out; the KD-tree queries are modelled by their contract    *)
(* (all points within distance r).                                         *)
(***************************************************************************)
EXTENDS Integers, FiniteSets, Sequences, TLC

\* ------------------------------------------------------------------ bounds
\* largest time stamp of an event
MaxT == 2
\* largest number of permutations knox, jacquez and Knox_Local are called with
MaxPerm == 1
\* largest number of permutations Knox, mantel and modified_knox are called
\* with: two, so that a trial follows another
MaxTrials == 2

\* numbers of events of the event sets
Sizes == {1, 2, 3}

\* the permutation count _knox_local passes to _knox
LocalGlobalPermutations == 99

\* spatial locations events are drawn from: pairwise distances 0, 3, 4, 5
Points == {<<0, 0>>, <<3, 0>>, <<0, 4>>}
Deltas == {0, 4}
Taus == {0, 1}
Times == 0..MaxT

\* ------------------------------------------------------- exact arithmetic
Abs(x) == IF x < 0 THEN -x ELSE x

RECURSIVE GCD(_, _)
GCD(a, b) == IF b = 0 THEN a ELSE GCD(b, a % b)

NaN == <<0, 0>>
IsNaN(x) == x[2] = 0
\* the fraction a/b in lowest terms; x/0 is NaN (numpy warns and goes on)
Frac(a, b) ==
    IF b = 0 THEN NaN
    ELSE LET g == GCD(Abs(a), Abs(b))
             s == IF b < 0 THEN -1 ELSE 1
         IN  <<(s * a) \div g, (s * b) \div g>>
Int2R(a) == <<a, 1>>
RAdd(x, y) == IF IsNaN(x) \/ IsNaN(y) THEN NaN
              ELSE Frac(x[1] * y[2] + y[1] * x[2], x[2] * y[2])
RSub(x, y) == IF IsNaN(x) \/ IsNaN(y) THEN NaN
              ELSE Frac(x[1] * y[2] - y[1] * x[2], x[2] * y[2])
RMul(x, y) == IF IsNaN(x) \/ IsNaN(y) THEN NaN
              ELSE Frac(x[1] * y[1], x[2] * y[2])
RDiv(x, y) == IF IsNaN(x) \/ IsNaN(y) THEN NaN
              ELSE Frac(x[1] * y[2], x[2] * y[1])
\* (the strict comparison x > y)
RGT(x, y) == ~IsNaN(x) /\ ~IsNaN(y) /\ x[1] * y[2] > y[1] * x[2]

\* x >= y; any comparison with NaN is false
RGE(x, y) == ~IsNaN(x) /\ ~IsNaN(y) /\ x[1] * y[2] >= y[1] * x[2]

RECURSIVE SumF(_, _)
SumF(f, S) == IF S = {} THEN 0
              ELSE LET x == CHOOSE x \in S : TRUE
                   IN  f[x] + SumF(f, S \ {x})

Ids(n) == 0..(n - 1)
\* the arrays np.random.permutation / np.random.shuffle can produce
RandomPermutations(n) == {r \in [Ids(n) -> Ids(n)] : \A i, j \in Ids(n) : r[i] = r[j] => i = j}

\* ---------------------------------------------------------- neighbor sets
SqDist(p, q) == (p[1] - q[1]) * (p[1] - q[1]) + (p[2] - q[2]) * (p[2] - q[2])

\* KDTree(s_coords).query_ball_tree(itself, r): every point within r, self included
BallTreeSpace(s, r) == [i \in DOMAIN s |-> {j \in DOMAIN s : SqDist(s[i], s[j]) <= r * r}]
BallTreeTime(t, r) == [i \in DOMAIN t |-> {j \in DOMAIN t : Abs(t[i] - t[j]) <= r}]
\* (the sets as the tree returns them, self included)
KeepSelf(nb) == nb

\* set(neighbors).difference([i])
DropSelf(nb) == [i \in DOMAIN nb |-> nb[i] \ {i}]

sneighborsOf(s, delta) == DropSelf(BallTreeSpace(s, delta))
tneighborsOf(t, tau) == DropSelf(BallTreeTime(t, tau))

\* ------------------------------------------------------------------ _knox
Half(x) == Frac(x, 2)

\* expected.sum() while expected[1,1] is still 0
ExpectedPartialSum(e00, e01, e10) == RAdd(RAdd(e00, e01), e10)

\* (the table with the spatial-only cell left at NS)
ObservedTableAllSpatial(NS, NT, NST, pairs) ==
    LET NS_ == NS
        NT_ == RSub(NT, NST)
    IN  [r \in 0..1 |-> [c \in 0..1 |->
            IF r = 0 /\ c = 0 THEN NST
            ELSE IF r = 0 /\ c = 1 THEN NS_
            ELSE IF r = 1 /\ c = 0 THEN NT_
            ELSE RSub(RSub(RSub(pairs, NST), NS_), NT_)]]

ObservedTable(NS, NT, NST, pairs) ==
    LET NS_ == RSub(NS, NST)
        NT_ == RSub(NT, NST)
    IN  [r \in 0..1 |-> [c \in 0..1 |->
            IF r = 0 /\ c = 0 THEN NST
            ELSE IF r = 0 /\ c = 1 THEN NS_
            ELSE IF r = 1 /\ c = 0 THEN NT_
            ELSE RSub(RSub(RSub(pairs, NST), NS_), NT_)]]

ExpectedTable(NS, NT, pairs) ==
    LET e00 == RDiv(RMul(NS, NT), pairs)
        e01 == RSub(NS, e00)
        e10 == RSub(NT, e00)
    IN  [r \in 0..1 |-> [c \in 0..1 |->
            IF r = 0 /\ c = 0 THEN e00
            ELSE IF r = 0 /\ c = 1 THEN e01
            ELSE IF r = 1 /\ c = 0 THEN e10
            ELSE RSub(pairs, ExpectedPartialSum(e00, e01, e10))]]

\* the results dictionary of _knox before the permutation loop
_knox_results(s, t, delta, tau) ==
    LET n == Cardinality(DOMAIN s)
        sneighbors == sneighborsOf(s, delta)
        tneighbors == tneighborsOf(t, tau)
        ns == [i \in DOMAIN sneighbors |-> Cardinality(sneighbors[i])]
        NS == Half(SumF(ns, DOMAIN ns))
        nt == [i \in DOMAIN tneighbors |-> Cardinality(tneighbors[i])]
        NT == Half(SumF(nt, DOMAIN nt))
        stneighbors == [i \in DOMAIN s |-> sneighbors[i] \cap tneighbors[i]]
        nst == [i \in DOMAIN s |-> Cardinality(stneighbors[i])]
        NST == Half(SumF(nst, DOMAIN nst))
        st_pairs == {<<i, j>> \in (DOMAIN s) \X (DOMAIN s) : i < j /\ j \in stneighbors[i]}
        pairs == Half(n * (n - 1))
    IN  [ns |-> NS, nt |-> NT, nst |-> NST, pairs |-> pairs,
         expected |-> ExpectedTable(NS, NT, pairs),
         observed |-> ObservedTable(NS, NT, NST, pairs),
         st_pairs |-> st_pairs,
         sneighbors |-> sneighbors, tneighbors |-> tneighbors]

\* (the sum with the temporal set of unit i itself, not of its label)
_knox_trial_st_own(sneighbors, tneighbors, rids) ==
    LET sti == [i \in DOMAIN sneighbors |->
                  Cardinality({j \in sneighbors[i] : rids[j] \in tneighbors[i]})]
    IN  SumF(sti, DOMAIN sti)

\* st of one permutation trial of _knox, before "st /= 2"
_knox_trial_st(sneighbors, tneighbors, rids) ==
    LET sti == [i \in DOMAIN sneighbors |->
                  Cardinality({j \in sneighbors[i] : rids[j] \in tneighbors[rids[i]]})]
    IN  SumF(sti, DOMAIN sti)

\* (the ratio with the denominator left at permutations)
PseudoPOverTrials(count, permutations) == <<count + 1, permutations>>

\* (exceedence + 1) / (permutations + 1), kept as the pair it is computed from
PseudoP(count, permutations) == <<count + 1, permutations + 1>>

\* ------------------------------------------------------------ legacy knox
\* cg.KDTree(s_coords).query_pairs(delta): the pairs i < j within delta
QueryPairs(s, delta) ==
    {<<i, j>> \in (DOMAIN s) \X (DOMAIN s) : i < j /\ SqDist(s[i], s[j]) <= delta * delta}

\* sum(d_t <= tau2) over the spatial pairs ids, with the current t_coords
TimeClosePairs(ids, t, tau) ==
    Cardinality({pr \in ids : (t[pr[1]] - t[pr[2]]) * (t[pr[1]] - t[pr[2]]) <= tau * tau})

\* sum(joint >= n_st[0])
CountGE(joint, n_st) == Cardinality({p \in DOMAIN joint : joint[p] >= n_st})

\* lines 254-255 of knox
KnoxLarger(larger, permutations) ==
    IF (permutations - larger) < larger THEN permutations - larger ELSE larger

\* ------------------------------------------------------------ _knox_local
\* (each pair counted for its first end only)
nstiOfFirstEnd(st_pairs, n) ==
    [i \in Ids(n) |-> Cardinality({pr \in st_pairs : pr[1] = i})]

\* nsti: each space-time pair adds one to both of its ends
nstiOf(st_pairs, n) ==
    [i \in Ids(n) |-> Cardinality({pr \in st_pairs : pr[1] = i \/ pr[2] = i})]

\* j = np.where(rids == i)
WhereIs(rids, i) == CHOOSE j \in DOMAIN rids : rids[j] = i

\* lines 903-906: give unit i its own label, the label it had goes to slot j
SwapIn(rids, i) ==
    LET j == WhereIs(rids, i)
        a == rids[i]
    IN  [[rids EXCEPT ![j] = a] EXCEPT ![i] = i]

\* (the labeling left as the swap made it)
SwapBackNot(swapped, i, j, a) == swapped

\* lines 919-920, with the j and a of lines 903-904
SwapBack(swapped, i, j, a) == [[swapped EXCEPT ![j] = i] EXCEPT ![i] = a]

\* lines 909-912: the local statistic of unit i under the labeling rids
LocalCount(sneighbors, tneighbors, rids, i) ==
    Cardinality({j \in sneighbors[i] : rids[j] \in tneighbors[i]})

\* the "for i in range(n)" loop of one trial, from unit i on: the count of
\* every unit and the labeling the loop leaves behind
RECURSIVE LocalTrial(_, _, _, _, _)
LocalTrial(sneighbors, tneighbors, rids, i, counts) ==
    IF i \notin DOMAIN rids THEN [rids |-> rids, counts |-> counts]
    ELSE LET j == WhereIs(rids, i)
             a == rids[i]
             swapped == SwapIn(rids, i)
             count == LocalCount(sneighbors, tneighbors, swapped, i)
         IN  LocalTrial(sneighbors, tneighbors, SwapBack(swapped, i, j, a), i + 1,
                        [counts EXCEPT ![i] = count])

\* the contents of rids through the same loop: for every unit the labeling
\* it found, the one its statistic was computed with, and the one it left
RECURSIVE LocalLabelings(_, _, _)
LocalLabelings(rids, i, seen) ==
    IF i \notin DOMAIN rids THEN seen
    ELSE LET j == WhereIs(rids, i)
             a == rids[i]
             swapped == SwapIn(rids, i)
             reset == SwapBack(swapped, i, j, a)
         IN  LocalLabelings(reset, i + 1,
                 [seen EXCEPT ![i] = [found |-> rids, used |-> swapped, left |-> reset]])

\* ------------------------------------------------------ distance matrices
ISqrt(x) == CHOOSE r \in 0..x : r * r = x
\* cg.distance_matrix: Euclidean distances (whole numbers on Points)
SpaceDistanceMatrix(s) == [i \in DOMAIN s |-> [j \in DOMAIN s |-> ISqrt(SqDist(s[i], s[j]))]]
TimeDistanceMatrix(t) == [i \in DOMAIN t |-> [j \in DOMAIN t |-> Abs(t[i] - t[j])]]

\* (the rows alone reordered: X[ids, :])
ShuffledRows(X, ids) == [a \in DOMAIN X |-> [b \in DOMAIN X |-> X[ids[a]][b]]]

\* _shuffle_matrix after np.random.shuffle(ids): X[ids, :][:, ids]
ShuffledMatrix(X, ids) == [a \in DOMAIN X |-> [b \in DOMAIN X |-> X[ids[a]][ids[b]]]]

\* ----------------------------------------------------------------- mantel
\* np.tril_indices(n, k = -1): the positions strictly below the diagonal
TrilIndices(n) == {<<i, j>> \in Ids(n) \X Ids(n) : j < i}

RECURSIVE LCMOver(_, _)
LCMOver(f, S) ==
    IF S = {} THEN 1
    ELSE LET x == CHOOSE x \in S : TRUE
             rest == LCMOver(f, S \ {x})
         IN  (f[x] * rest) \div GCD(f[x], rest)

\* (M[tril] + con) ** pow for pow in {1, -1}; the reciprocals are all scaled by
\* their common denominator, which leaves the correlation as it is
Transformed(M, con, pow) ==
    LET n == Cardinality(DOMAIN M)
        shifted == [pr \in TrilIndices(n) |-> M[pr[1]][pr[2]] + con]
        scale == LCMOver(shifted, TrilIndices(n))
    IN  IF pow = 1 THEN shifted
        ELSE [pr \in TrilIndices(n) |-> scale \div shifted[pr]]

\* stats.pearsonr(x, y)[0] as the parts of r = cov / sqrt(vx * vy), each
\* times len(x) squared; r is NaN when either input is constant
Pearson(x, y) ==
    LET D == DOMAIN x
        m == Cardinality(D)
        sx == SumF(x, D)
        sy == SumF(y, D)
        sxy == SumF([d \in D |-> x[d] * y[d]], D)
        sxx == SumF([d \in D |-> x[d] * x[d]], D)
        syy == SumF([d \in D |-> y[d] * y[d]], D)
    IN  [cov |-> m * sxy - sx * sy, var |-> (m * sxx - sx * sx) * (m * syy - sy * sy)]

PearsonIsNaN(r) == r.var = 0
\* r is 1 or -1 in exact arithmetic: the vectors are collinear
PearsonIsUnit(r) == r.var # 0 /\ r.cov * r.cov = r.var
\* pearsonr(...)[0] can be a Python float, on which line 347 / 358 fails
\* with AttributeError ('float' object has no attribute 'sum'): scipy
\* releases that clip r with max(min(r, 1.0), -1.0) return the float 1.0 or
\* -1.0 when the doubles of collinear vectors round r beyond it, and releases
\* that return np.nan for a constant vector return a float as well.  Other
\* releases, and collinear vectors whose r rounds within [-1, 1], give a
\* numpy double, and mantel goes on.
PearsonMayBeFloat(r) == PearsonIsNaN(r) \/ PearsonIsUnit(r)
\* r1 >= r2, comparing cov * |cov| / var
PearsonGE(r1, r2) ==
    /\ ~PearsonIsNaN(r1)
    /\ ~PearsonIsNaN(r2)
    /\ LET g == GCD(r1.var, r2.var)
       IN  r1.cov * Abs(r1.cov) * (r2.var \div g) >= r2.cov * Abs(r2.cov) * (r1.var \div g)

\* r1 = r2 in exact arithmetic
PearsonEq(r1, r2) == PearsonGE(r1, r2) /\ PearsonGE(r2, r1)

\* np.ma.count_masked(np.ma.masked_greater_equal(distribution, stat)) of
\* mantel, on the doubles pearsonr returned.  An r above the observed one in
\* exact arithmetic is counted and one below is not; an r that ties it is the
\* same double, and counted, when pearsonr was given the observed timevec
\* again (same[p]), and otherwise lands on either side of it by rounding.
MantelCounts(dist, stat, same) ==
    LET sure == {p \in DOMAIN dist :
                    /\ PearsonGE(dist[p], stat)
                    /\ PearsonEq(dist[p], stat) => same[p]}
        tied == {p \in DOMAIN dist : PearsonEq(dist[p], stat) /\ ~same[p]}
    IN  {Cardinality(sure) + k : k \in 0..Cardinality(tied)}

\* ---------------------------------------------------------- modified_knox
\* sdistmat <= delta as a 0/1 matrix (the diagonal is 1)
Within(M, r) == [i \in DOMAIN M |-> [j \in DOMAIN M |-> IF M[i][j] <= r THEN 1 ELSE 0]]

MatrixSum(M) == SumF([i \in DOMAIN M |-> SumF(M[i], DOMAIN M[i])], DOMAIN M)

\* bin.sum(axis=0) - 1
ColumnSumsLessOne(M) == [j \in DOMAIN M |-> SumF([i \in DOMAIN M |-> M[i][j]], DOMAIN M) - 1]

\* (obsstat - expstat / (n - 1.0)) / 2.0 for the given 0/1 matrices
ModifiedKnoxStat(spacbin, timebin) ==
    LET n == Cardinality(DOMAIN timebin)
        knoxmat == [i \in DOMAIN timebin |-> [j \in DOMAIN timebin |->
                       timebin[i][j] * spacbin[i][j]]]
        obsstat == MatrixSum(knoxmat) - n
        ssumvec == ColumnSumsLessOne(spacbin)
        tsumvec == ColumnSumsLessOne(timebin)
        expstat == SumF([i \in DOMAIN timebin |-> ssumvec[i] * tsumvec[i]], DOMAIN timebin)
    IN  RDiv(RSub(Int2R(obsstat), RDiv(Int2R(expstat), Int2R(n - 1))), Int2R(2))

\* count_masked(masked_greater_equal(distribution, stat)) on fractions
FracCount(dist, stat) == Cardinality({p \in DOMAIN dist : RGE(dist[p], stat)})

\* ---------------------------------------------------------------- jacquez
\* KNN.from_array(data, k).neighbors: for every event the k nearest other
\* events.  Which of several equally distant events the KD-tree returns is
\* not specified, so every choice of k nearest events is possible.
NearestSets(D, k, i) ==
    {nb \in SUBSET ((DOMAIN D) \ {i}) :
        /\ Cardinality(nb) = k
        /\ \A a \in nb, b \in (DOMAIN D) \ (nb \cup {i}) : D[i][a] <= D[i][b]}

\* KNN takes the k + 1 nearest points of the tree and drops the event itself
\* from them.  When more than k other events lie on an event, the k + 1
\* nearest need not hold the event; libpysal releases differ there: some
\* raise ValueError (list.remove(x): x not in list), some drop the last of
\* the k + 1 and give k neighbors as above.
KnnCrowded(D, k) ==
    \E i \in DOMAIN D : Cardinality({j \in (DOMAIN D) \ {i} : D[i][j] = 0}) > k

\* the functions over S that take a value of F[x] at every x
RECURSIVE ChoiceFunctions(_, _)
ChoiceFunctions(F, S) ==
    IF S = {} THEN {<<>>}
    ELSE LET x == CHOOSE x \in S : TRUE
         IN  {(x :> v) @@ f : v \in F[x], f \in ChoiceFunctions(F, S \ {x})}

KNNChoices(D, k) ==
    ChoiceFunctions([i \in DOMAIN D |-> NearestSets(D, k, i)], DOMAIN D)

\* (the sum with the union of the two sets in place of their intersection)
KnnSumUnion(nnt, nns) == SumF([i \in DOMAIN nns |-> Cardinality(nnt[i] \cup nns[i])], DOMAIN nns)

\* the sum over i of len(set(nnt[i]).intersection(nns[i]))
KnnSum(nnt, nns) == SumF([i \in DOMAIN nns |-> Cardinality(nnt[i] \cap nns[i])], DOMAIN nns)

IntCount(dist, stat) == Cardinality({p \in DOMAIN dist : dist[p] >= stat})

\* (the statistic wrapped in a dictionary)
NoInferenceDict(stat) == [kind |-> "dict", fields |-> [stat |-> stat]]

\* "return stat" of mantel, jacquez and modified_knox when permutations is 0
NoInference(stat) == [kind |-> "bare", value |-> stat]

\* ------------------------------------------------------------------ state
VARIABLES
    call,       \* the test called and its arguments, as passed
    s_coords,   \* the caller's spatial array
    t_coords,   \* the caller's temporal array
    pc,         \* position in the running call
    results,    \* the results dictionary of _knox / _knox_local
    loc,        \* the other locals of the running function
    rng,        \* number of draws made from the np.random generator
    out         \* what the call returned or raised

vars == <<call, s_coords, t_coords, pc, results, loc, rng, out>>

None == [kind |-> "none"]
Raise(exc) == [kind |-> "error", exc |-> exc]

\* the event sets of n events: any locations, times in the order of the log
TimeOrdered(t) == \A i, j \in DOMAIN t : i <= j => t[i] <= t[j]
EventArrays(n) == [Ids(n) -> Points] \X {t \in [Ids(n) -> Times] : TimeOrdered(t)}

Arr1(a) == [i \in Ids(1) |-> a]
Arr2(a, b) == [i \in Ids(2) |-> IF i = 0 THEN a ELSE b]
Arr3(a, b, c) == [i \in Ids(3) |-> IF i = 0 THEN a ELSE IF i = 1 THEN b ELSE c]

EventSets == UNION {EventArrays(n) : n \in Sizes}

\* knox, mantel, jacquez and modified_knox take no keep flag
KnoxCalls ==
    {[test |-> "Knox", s |-> ev[1], t |-> ev[2], delta |-> delta, tau |-> tau,
      permutations |-> P, keep |-> keep] :
        ev \in EventSets, delta \in Deltas, tau \in Taus, P \in 0..MaxTrials,
        keep \in BOOLEAN}

knoxCalls ==
    {[test |-> "knox", s |-> ev[1], t |-> ev[2], delta |-> delta, tau |-> tau,
      permutations |-> P, keep |-> FALSE] :
        ev \in EventSets, delta \in Deltas, tau \in Taus, P \in 0..MaxPerm}

modified_knoxCalls ==
    {[test |-> "modified_knox", s |-> ev[1], t |-> ev[2], delta |-> delta, tau |-> tau,
      permutations |-> P, keep |-> FALSE] :
        ev \in EventSets, delta \in Deltas, tau \in Taus, P \in 0..MaxTrials}

\* mantel with scon = tcon = 1 (the default) and each power 1 or -1 (the default)
mantelCalls ==
    {[test |-> "mantel", s |-> ev[1], t |-> ev[2], permutations |-> P, keep |-> FALSE,
      scon |-> 1, spow |-> spow, tcon |-> 1, tpow |-> tpow] :
        ev \in EventSets, P \in 0..MaxTrials, spow \in {-1, 1}, tpow \in {-1, 1}}

\* jacquez with 1 <= k < n, so that every event has k other events
jacquezCalls ==
    {[test |-> "jacquez", s |-> c[1][1], t |-> c[1][2], k |-> c[2], permutations |-> P,
      keep |-> FALSE] :
        c \in UNION {EventArrays(n) \X (1..(n - 1)) : n \in Sizes}, P \in 0..MaxPerm}

\* The event sets Knox_Local is called on.  Every call of Knox_Local runs the
\* 99 trials of line 877, so it is called on a few event sets only: a single
\* event, a space-time pair, and three events whose neighbor graphs are a
\* single matching pair, two disjoint pairs, a spatial star, and a spatial
\* triangle over a temporal chain.
LocalEvents ==
    { [s |-> Arr1(<<0, 0>>), t |-> Arr1(0), delta |-> 3, tau |-> 1],
      [s |-> Arr2(<<0, 0>>, <<3, 0>>), t |-> Arr2(0, 1), delta |-> 3, tau |-> 1],
      [s |-> Arr3(<<0, 0>>, <<0, 0>>, <<3, 0>>), t |-> Arr3(0, 0, 1), delta |-> 0, tau |-> 0],
      [s |-> Arr3(<<0, 0>>, <<3, 0>>, <<0, 4>>), t |-> Arr3(0, 1, 1), delta |-> 3, tau |-> 0],
      [s |-> Arr3(<<0, 0>>, <<3, 0>>, <<0, 4>>), t |-> Arr3(0, 0, 1), delta |-> 4, tau |-> 0],
      [s |-> Arr3(<<0, 0>>, <<3, 0>>, <<0, 4>>), t |-> Arr3(0, 1, 2), delta |-> 5, tau |-> 1] }

Knox_LocalCalls ==
    {[test |-> "Knox_Local", s |-> e.s, t |-> e.t, delta |-> e.delta, tau |-> e.tau,
      permutations |-> P, keep |-> keep] :
        e \in LocalEvents, P \in 0..MaxPerm, keep \in BOOLEAN}

Init ==
    /\ \/ call \in KnoxCalls
       \/ call \in knoxCalls
       \/ call \in Knox_LocalCalls
       \/ call \in mantelCalls
       \/ call \in jacquezCalls
       \/ call \in modified_knoxCalls
    /\ s_coords = call.s
    /\ t_coords = call.t
    /\ pc = "call"
    /\ results = <<>>
    /\ loc = <<>>
    /\ rng = 0
    /\ out = None

\* _knox, lines 669-751: the observed tables and the set-up of the loop
_knox_enter(permutations, keep) ==
    /\ results' = _knox_results(s_coords, t_coords, call.delta, call.tau)
    /\ loc' = [permutations |-> permutations, keep |-> keep, perm |-> 0,
               exceedence |-> 0, ST |-> <<>>]
    /\ pc' = IF permutations > 0 THEN "_knox.loop" ELSE "_knox.ret"
    /\ UNCHANGED <<call, s_coords, t_coords, rng, out>>

\* Knox.__init__ up to its call of _knox
Knox_init ==
    /\ pc = "call"
    /\ call.test = "Knox"
    /\ _knox_enter(call.permutations, call.keep)

\* one pass of "for perm in range(permutations)" in _knox
_knox_trial ==
    /\ pc = "_knox.loop"
    /\ loc.perm < loc.permutations
    /\ \E rids \in RandomPermutations(Cardinality(DOMAIN results.sneighbors)) :
         LET st == Half(_knox_trial_st(results.sneighbors, results.tneighbors, rids))
         IN  loc' = [loc EXCEPT
                       !.perm = @ + 1,
                       !.exceedence = IF RGE(st, results.nst) THEN @ + 1 ELSE @,
                       !.ST = IF loc.keep THEN Append(@, st) ELSE @]
    /\ rng' = rng + 1
    /\ UNCHANGED <<call, s_coords, t_coords, pc, results, out>>

\* _knox, lines 767-770, after the last trial
_knox_finish ==
    /\ pc = "_knox.loop"
    /\ loc.perm = loc.permutations
    /\ results' = [p_value_sim |-> PseudoP(loc.exceedence, loc.permutations),
                   exceedence |-> loc.exceedence] @@
                  (IF loc.keep THEN [st_perm |-> loc.ST] ELSE <<>>) @@ results
    /\ pc' = "_knox.ret"
    /\ UNCHANGED <<call, s_coords, t_coords, loc, rng, out>>

\* int(results['nst'])
IntOf(x) == x[1] \div x[2]

\* Knox.__init__, lines 861-869
Knox_return ==
    /\ pc = "_knox.ret"
    /\ call.test = "Knox"
    /\ out' = [kind |-> "object",
               attrs |-> [nst |-> IntOf(results.nst), observed |-> results.observed,
                          expected |-> results.expected] @@
                         (IF call.permutations > 0
                          THEN [p_sim |-> results.p_value_sim] @@
                               (IF call.keep THEN [sim |-> results.st_perm] ELSE <<>>)
                          ELSE <<>>)]
    /\ pc' = "done"
    /\ UNCHANGED <<call, s_coords, t_coords, results, loc, rng>>

\* knox, lines 233-246 (and the return of line 258 when permutations is 0)
knox_call ==
    /\ pc = "call"
    /\ call.test = "knox"
    /\ LET ids == QueryPairs(s_coords, call.delta)
           n_st == TimeClosePairs(ids, t_coords, call.tau)
       IN  IF ids = {}
           THEN \* ids has shape (0,): ids[:, 0] raises
                /\ out' = Raise("IndexError")
                /\ pc' = "done"
                /\ UNCHANGED <<results, loc>>
           ELSE /\ results' = [stat |-> n_st]
                /\ loc' = [ids |-> ids, p |-> 0,
                           joint |-> [p \in Ids(call.permutations) |-> 0]]
                /\ IF call.permutations # 0
                   THEN pc' = "knox.loop" /\ out' = out
                   ELSE pc' = "done" /\ out' = [kind |-> "dict", fields |-> [stat |-> n_st]]
    /\ UNCHANGED <<call, s_coords, t_coords, rng>>

\* knox, lines 248-251: one trial, shuffling the caller's array in place
knox_trial ==
    /\ pc = "knox.loop"
    /\ loc.p < call.permutations
    /\ \E r \in RandomPermutations(Cardinality(DOMAIN t_coords)) :
         LET shuffled == [i \in DOMAIN t_coords |-> t_coords[r[i]]]
         IN  /\ t_coords' = shuffled
             /\ loc' = [loc EXCEPT !.p = @ + 1,
                                   !.joint[loc.p] = TimeClosePairs(loc.ids, shuffled, call.tau)]
    /\ rng' = rng + 1
    /\ UNCHANGED <<call, s_coords, pc, results, out>>

\* knox, lines 253-258
knox_return ==
    /\ pc = "knox.loop"
    /\ loc.p = call.permutations
    /\ LET larger == KnoxLarger(CountGE(loc.joint, results.stat), call.permutations)
           p_sim == PseudoP(larger, call.permutations)
       IN  /\ results' = [stat |-> results.stat, pvalue |-> p_sim]
           /\ out' = [kind |-> "dict", fields |-> [stat |-> results.stat, pvalue |-> p_sim]]
    /\ pc' = "done"
    /\ UNCHANGED <<call, s_coords, t_coords, loc, rng>>

\* Knox_Local.__init__ and _knox_local up to the call of _knox on line 877
Knox_Local_init ==
    /\ pc = "call"
    /\ call.test = "Knox_Local"
    /\ _knox_enter(LocalGlobalPermutations, FALSE)

\* _knox_local, lines 878-897
_knox_local_body ==
    /\ pc = "_knox.ret"
    /\ call.test = "Knox_Local"
    /\ LET n == Cardinality(DOMAIN s_coords)
       IN  /\ results' = [nsti |-> nstiOf(results.st_pairs, n),
                          nsi |-> [i \in Ids(n) |-> Cardinality(results.sneighbors[i])],
                          nti |-> [i \in Ids(n) |-> Cardinality(results.sneighbors[i])]]
                         @@ results
           /\ loc' = [perm |-> 0, exceedence |-> [i \in Ids(n) |-> 0],
                      STI |-> [i \in Ids(n) |-> <<>>], drawn |-> <<>>, rids |-> <<>>]
    /\ pc' = IF call.permutations > 0 THEN "_knox_local.loop" ELSE "_knox_local.ret"
    /\ UNCHANGED <<call, s_coords, t_coords, rng, out>>

\* _knox_local, lines 898-920: one trial, every focal unit in turn
_knox_local_trial ==
    /\ pc = "_knox_local.loop"
    /\ loc.perm < call.permutations
    /\ \E rids \in RandomPermutations(Cardinality(DOMAIN s_coords)) :
         LET n == Cardinality(DOMAIN s_coords)
             done == LocalTrial(results.sneighbors, results.tneighbors, rids, 0,
                                [i \in Ids(n) |-> 0])
         IN  loc' = [perm |-> loc.perm + 1,
                     exceedence |-> [i \in Ids(n) |->
                        IF done.counts[i] >= results.nsti[i]
                        THEN loc.exceedence[i] + 1 ELSE loc.exceedence[i]],
                     STI |-> [i \in Ids(n) |->
                        IF call.keep THEN Append(loc.STI[i], done.counts[i])
                        ELSE loc.STI[i]],
                     drawn |-> rids,
                     rids |-> LocalLabelings(rids, 0, [i \in Ids(n) |-> <<>>])]
    /\ rng' = rng + 1
    /\ UNCHANGED <<call, s_coords, t_coords, pc, results, out>>

\* _knox_local, lines 921-924
_knox_local_finish ==
    /\ pc = "_knox_local.loop"
    /\ loc.perm = call.permutations
    /\ results' = [exceedence_pvalue |->
                      [i \in DOMAIN loc.exceedence |->
                          PseudoP(loc.exceedence[i], call.permutations)],
                   exceedences |-> loc.exceedence] @@
                  (IF call.keep THEN [sti_perm |-> loc.STI] ELSE <<>>) @@ results
    /\ pc' = "_knox_local.ret"
    /\ UNCHANGED <<call, s_coords, t_coords, loc, rng, out>>

\* Knox_Local.__init__, lines 1037-1051
Knox_Local_return ==
    /\ pc = "_knox_local.ret"
    /\ IF call.permutations > 0 /\ call.keep /\ "st_perm" \notin DOMAIN results
       THEN out' = Raise("KeyError")
       ELSE out' = [kind |-> "object",
                    attrs |-> [nst |-> IntOf(results.nst), observed |-> results.observed,
                               expected |-> results.expected, nsti |-> results.nsti] @@
                              (IF call.permutations > 0
                               THEN [p_sim |-> results.p_value_sim,
                                     p_sims |-> results.exceedence_pvalue] @@
                                    (IF call.keep
                                     THEN [sim |-> results.st_perm,
                                           sims |-> results.sti_perm]
                                     ELSE <<>>)
                               ELSE <<>>)]
    /\ pc' = "done"
    /\ UNCHANGED <<call, s_coords, t_coords, results, loc, rng>>

\* mantel, lines 336-351
mantel_call ==
    /\ pc = "call"
    /\ call.test = "mantel"
    /\ LET n == Cardinality(DOMAIN t_coords)
           distmat == SpaceDistanceMatrix(s_coords)
           timemat == TimeDistanceMatrix(t_coords)
           timevec == Transformed(timemat, call.tcon, call.tpow)
           distvec == Transformed(distmat, call.scon, call.spow)
           stat == Pearson(timevec, distvec)
       IN  IF Cardinality(TrilIndices(n)) < 2
           THEN \* pearsonr: x and y must have length at least 2
                /\ out' = Raise("ValueError")
                /\ pc' = "done"
                /\ UNCHANGED <<results, loc>>
           ELSE \/ \* line 347 on a Python float: .sum() raises
                   /\ PearsonMayBeFloat(stat)
                   /\ out' = Raise("AttributeError")
                   /\ pc' = "done"
                   /\ UNCHANGED <<results, loc>>
                \/ \* r is a numpy double
                   /\ results' = [stat |-> stat]
                   /\ loc' = [timemat |-> timemat, distvec |-> distvec, trand |-> <<>>,
                              dist |-> <<>>, same |-> <<>>]
                   /\ IF call.permutations = 0
                      THEN pc' = "done" /\ out' = NoInference(stat)
                      ELSE pc' = "mantel.loop" /\ out' = out
    /\ UNCHANGED <<call, s_coords, t_coords, rng>>

\* mantel, lines 355-359
mantel_trial ==
    /\ pc = "mantel.loop"
    /\ Len(loc.dist) < call.permutations
    /\ \E ids \in RandomPermutations(Cardinality(DOMAIN t_coords)) :
         LET trand == ShuffledMatrix(loc.timemat, ids)
             timevec == Transformed(trand, call.tcon, call.tpow)
             m == Pearson(timevec, loc.distvec)
             \* whether pearsonr got the vector the observed r came from
             again == timevec = Transformed(loc.timemat, call.tcon, call.tpow)
         IN  \/ \* line 358 on a Python float.  The observed vector again gives
                \* the double line 347 got, and a constant vector raised there.
                /\ PearsonIsUnit(m)
                /\ ~again
                /\ loc' = [loc EXCEPT !.trand = trand]
                /\ out' = Raise("AttributeError")
                /\ pc' = "done"
             \/ /\ loc' = [loc EXCEPT !.trand = trand, !.dist = Append(@, m),
                                       !.same = Append(@, again)]
                /\ UNCHANGED <<pc, out>>
    /\ rng' = rng + 1
    /\ UNCHANGED <<call, s_coords, t_coords, results>>

\* mantel, lines 362-369
mantel_return ==
    /\ pc = "mantel.loop"
    /\ Len(loc.dist) = call.permutations
    /\ \E count \in MantelCounts(loc.dist, results.stat, loc.same) :
         LET pvalue == PseudoP(count, call.permutations)
         IN  /\ results' = [stat |-> results.stat, pvalue |-> pvalue]
             /\ out' = [kind |-> "dict",
                        fields |-> [stat |-> results.stat, pvalue |-> pvalue]]
    /\ pc' = "done"
    /\ UNCHANGED <<call, s_coords, t_coords, loc, rng>>

\* jacquez, lines 432-457
jacquez_call ==
    /\ pc = "call"
    /\ call.test = "jacquez"
    /\ \/ \* lines 437-438: KNN.from_array raising
          /\ \/ KnnCrowded(TimeDistanceMatrix(t_coords), call.k)
             \/ KnnCrowded(SpaceDistanceMatrix(s_coords), call.k)
          /\ out' = Raise("ValueError")
          /\ pc' = "done"
          /\ UNCHANGED <<results, loc>>
       \/ \E nnt \in KNNChoices(TimeDistanceMatrix(t_coords), call.k),
             nns \in KNNChoices(SpaceDistanceMatrix(s_coords), call.k) :
            LET stat == KnnSum(nnt, nns)
            IN  /\ results' = [stat |-> stat]
                /\ loc' = [nns |-> nns, nnt |-> nnt, dist |-> <<>>]
                /\ IF call.permutations = 0
                   THEN pc' = "done" /\ out' = NoInference(stat)
                   ELSE pc' = "jacquez.loop" /\ out' = out
    /\ UNCHANGED <<call, s_coords, t_coords, rng>>

\* jacquez, lines 461-474
jacquez_trial ==
    /\ pc = "jacquez.loop"
    /\ Len(loc.dist) < call.permutations
    /\ \E r \in RandomPermutations(Cardinality(DOMAIN t_coords)) :
         LET trand == [i \in DOMAIN t_coords |-> t_coords[r[i]]]
         IN  \/ \* line 463: KNN.from_array raising on the permuted times
                /\ KnnCrowded(TimeDistanceMatrix(trand), call.k)
                /\ out' = Raise("ValueError")
                /\ pc' = "done"
                /\ loc' = loc
             \/ \E nnt \in KNNChoices(TimeDistanceMatrix(trand), call.k) :
                  /\ loc' = [loc EXCEPT !.nnt = nnt,
                                        !.dist = Append(@, KnnSum(nnt, loc.nns))]
                  /\ UNCHANGED <<pc, out>>
    /\ rng' = rng + 1
    /\ UNCHANGED <<call, s_coords, t_coords, results>>

\* jacquez, lines 477-484
jacquez_return ==
    /\ pc = "jacquez.loop"
    /\ Len(loc.dist) = call.permutations
    /\ LET count == IntCount(loc.dist, results.stat)
           pvalue == PseudoP(count, call.permutations)
       IN  /\ results' = [stat |-> results.stat, pvalue |-> pvalue]
           /\ out' = [kind |-> "dict", fields |-> [stat |-> results.stat, pvalue |-> pvalue]]
    /\ pc' = "done"
    /\ UNCHANGED <<call, s_coords, t_coords, loc, rng>>

\* modified_knox, lines 554-585
modified_knox_call ==
    /\ pc = "call"
    /\ call.test = "modified_knox"
    /\ LET sdistmat == SpaceDistanceMatrix(s_coords)
           tdistmat == TimeDistanceMatrix(t_coords)
           spacbin == Within(sdistmat, call.delta)
           timebin == Within(tdistmat, call.tau)
           stat == ModifiedKnoxStat(spacbin, timebin)
       IN  /\ results' = [stat |-> stat]
           /\ loc' = [tdistmat |-> tdistmat, spacbin |-> spacbin, rtdistmat |-> <<>>,
                      distribution |-> <<>>]
           /\ IF call.permutations = 0
              THEN pc' = "done" /\ out' = NoInference(stat)
              ELSE pc' = "modified_knox.loop" /\ out' = out
    /\ UNCHANGED <<call, s_coords, t_coords, rng>>

\* modified_knox, lines 588-605
modified_knox_trial ==
    /\ pc = "modified_knox.loop"
    /\ Len(loc.distribution) < call.permutations
    /\ \E ids \in RandomPermutations(Cardinality(DOMAIN t_coords)) :
         LET rtdistmat == ShuffledMatrix(loc.tdistmat, ids)
             timebin == Within(rtdistmat, call.tau)
             tempstat == ModifiedKnoxStat(loc.spacbin, timebin)
         IN  loc' = [loc EXCEPT !.rtdistmat = rtdistmat,
                                !.distribution = Append(@, tempstat)]
    /\ rng' = rng + 1
    /\ UNCHANGED <<call, s_coords, t_coords, pc, results, out>>

\* modified_knox, lines 608-615
modified_knox_return ==
    /\ pc = "modified_knox.loop"
    /\ Len(loc.distribution) = call.permutations
    /\ LET count == FracCount(loc.distribution, results.stat)
           pvalue == PseudoP(count, call.permutations)
       IN  /\ results' = [stat |-> results.stat, pvalue |-> pvalue]
           /\ out' = [kind |-> "dict", fields |-> [stat |-> results.stat, pvalue |-> pvalue]]
    /\ pc' = "done"
    /\ UNCHANGED <<call, s_coords, t_coords, loc, rng>>

Next ==
    \/ Knox_init
    \/ _knox_trial
    \/ _knox_finish
    \/ Knox_return
    \/ knox_call
    \/ knox_trial
    \/ knox_return
    \/ Knox_Local_init
    \/ _knox_local_body
    \/ _knox_local_trial
    \/ _knox_local_finish
    \/ Knox_Local_return
    \/ mantel_call
    \/ mantel_trial
    \/ mantel_return
    \/ jacquez_call
    \/ jacquez_trial
    \/ jacquez_return
    \/ modified_knox_call
    \/ modified_knox_trial
    \/ modified_knox_return

Spec == Init /\ [][Next]_vars
\* ================================================================= claims
NEvents == Cardinality(DOMAIN call.s)
Returned == pc = "done" /\ out.kind # "error"

\* p is one of 1/(P+1), 2/(P+1), ..., (P+1)/(P+1)
OnGrid(p, P) == p[2] > 0 /\ \E k \in 1..(P + 1) : p[1] * (P + 1) = k * p[2]

\* C1: with permutations = P > 0 the pseudo p-value reported by knox, Knox,
\* mantel, jacquez and modified_knox, and every per-unit p-value p_sims[i] of
\* Knox_Local, is one of k/(P+1) with k in 1..P+1.
C1_PValueOnGrid ==
    (Returned /\ call.permutations > 0) =>
        /\ out.kind = "dict" => OnGrid(out.fields.pvalue, call.permutations)
        /\ (out.kind = "object" /\ call.test = "Knox") =>
               OnGrid(out.attrs.p_sim, call.permutations)
        /\ (out.kind = "object" /\ call.test = "Knox_Local") =>
               \A i \in DOMAIN out.attrs.p_sims :
                   OnGrid(out.attrs.p_sims[i], call.permutations)

\* a Knox_Local call of one trial in which unit 0 fell short of its observed
\* statistic and unit 1 reached it
C1_Witness ==
    /\ Returned
    /\ call.test = "Knox_Local"
    /\ call.permutations = 1
    /\ out.attrs.p_sims[0] = <<1, 2>>
    /\ out.attrs.p_sims[1] = <<2, 2>>

\* C2: the legacy knox returns pvalue = (E + 1)/(P + 1), E being the number
\* of trials whose permuted count is >= the observed count, for every E.
C2_KnoxPValueIsExceedance ==
    (Returned /\ call.test = "knox" /\ call.permutations > 0) =>
        out.fields.pvalue =
            <<CountGE(loc.joint, out.fields.stat) + 1, call.permutations + 1>>

\* C3: the global p_sim of Knox_Local(..., permutations = P) comes from
\* exactly P trials, so it is one of k/(P+1).
C3_LocalGlobalPSimOnGrid ==
    (Returned /\ call.test = "Knox_Local" /\ call.permutations > 0) =>
        /\ results.exceedence <= call.permutations
        /\ OnGrid(out.attrs.p_sim, call.permutations)

\* C4: Knox_Local with keep = True and permutations = P > 0 ends without an
\* error and exposes sim (P entries) and sims (P entries for every unit).
C4_LocalKeepExposesBoth ==
    (pc = "done" /\ call.test = "Knox_Local" /\ call.keep /\ call.permutations > 0) =>
        /\ out.kind = "object"
        /\ {"sim", "sims"} \subseteq DOMAIN out.attrs
        /\ Len(out.attrs.sim) = call.permutations
        /\ \A i \in DOMAIN out.attrs.sims : Len(out.attrs.sims[i]) = call.permutations

\* the classification of the unordered pairs straight from the coordinates
AllPairs == {pr \in Ids(NEvents) \X Ids(NEvents) : pr[1] < pr[2]}
SpaceClose(pr) == ISqrt(SqDist(call.s[pr[1]], call.s[pr[2]])) <= call.delta
TimeClose(pr) == Abs(call.t[pr[1]] - call.t[pr[2]]) <= call.tau
PairCount(inSpace, inTime) ==
    Cardinality({pr \in AllPairs : SpaceClose(pr) = inSpace /\ TimeClose(pr) = inTime})
TableSum(tab) == RAdd(RAdd(tab[0][0], tab[0][1]), RAdd(tab[1][0], tab[1][1]))
KnoxTablesBuilt == call.test \in {"Knox", "Knox_Local"} /\ pc # "call"

\* C5: for n >= 2 the observed table of the global Knox test holds the counts
\* of the pairs that are close in space and time, in space only, in time only
\* and in neither (whole, non-negative, summing to n(n-1)/2), and the expected
\* table sums to n(n-1)/2 as well.
C5_TablesPartitionPairs ==
    (KnoxTablesBuilt /\ NEvents >= 2) =>
        /\ results.observed[0][0] = Int2R(PairCount(TRUE, TRUE))
        /\ results.observed[0][1] = Int2R(PairCount(TRUE, FALSE))
        /\ results.observed[1][0] = Int2R(PairCount(FALSE, TRUE))
        /\ results.observed[1][1] = Int2R(PairCount(FALSE, FALSE))
        /\ TableSum(results.observed) = Frac(NEvents * (NEvents - 1), 2)
        /\ TableSum(results.expected) = Frac(NEvents * (NEvents - 1), 2)

\* three events with one pair of each of the first three kinds
C5_Witness ==
    /\ KnoxTablesBuilt
    /\ call.test = "Knox"
    /\ pc = "done"
    /\ NEvents = 3
    /\ results.observed[0][0] = <<1, 1>>
    /\ results.observed[0][1] = <<1, 1>>
    /\ results.observed[1][0] = <<1, 1>>
    /\ results.observed[1][1] = <<0, 1>>
    /\ results.expected[0][0] = <<4, 3>>

\* C6: the neighbor sets of the Knox test are symmetric and irreflexive, and
\* j # i is a neighbor of i exactly when their distance is within the threshold.
C6_NeighborSetsSymmetric ==
    KnoxTablesBuilt =>
        \A i, j \in Ids(NEvents) :
            /\ j \in results.sneighbors[i] <=> i \in results.sneighbors[j]
            /\ j \in results.tneighbors[i] <=> i \in results.tneighbors[j]
            /\ i \notin results.sneighbors[i]
            /\ i \notin results.tneighbors[i]
            /\ i # j => (j \in results.sneighbors[i] <=>
                            ISqrt(SqDist(call.s[i], call.s[j])) <= call.delta)
            /\ i # j => (j \in results.tneighbors[i] <=>
                            Abs(call.t[i] - call.t[j]) <= call.tau)

\* an event with a spatial neighbor that is no temporal neighbor, and an event
\* without any spatial neighbor
C6_Witness ==
    /\ KnoxTablesBuilt
    /\ call.test = "Knox"
    /\ \E i, j \in Ids(NEvents) :
          /\ j \in results.sneighbors[i]
          /\ j \notin results.tneighbors[i]
    /\ \E i \in Ids(NEvents) : results.sneighbors[i] = {}

\* C7: when a test returns, the caller's s_coords and t_coords hold the values
\* they held before the call, in the same order.
C7_InputsUnchanged ==
    pc = "done" => (s_coords = call.s /\ t_coords = call.t)

\* C8: a call with permutations = 0 draws nothing from the random generator.
\* rng counts the permutations drawn; a permutation of two or more events
\* consumes random numbers and moves the generator state, a permutation of a
\* single event consumes none, so the count tells of the state for n >= 2.
C8_NoDrawsWithoutPermutations ==
    (pc = "done" /\ call.permutations = 0 /\ NEvents >= 2) => rng = 0

\* C9: every test returns a structured result holding stat, and pvalue exactly
\* when permutations > 0; so do knox, mantel, jacquez, modified_knox at 0.
C9_StructuredResult ==
    (Returned /\ call.test \in {"knox", "mantel", "jacquez", "modified_knox"}) =>
        /\ out.kind = "dict"
        /\ "stat" \in DOMAIN out.fields
        /\ "pvalue" \in DOMAIN out.fields <=> call.permutations > 0

\* C9 as amended: a call that returns gives, with permutations > 0, a
\* dictionary of stat and pvalue (knox, mantel, jacquez, modified_knox) or an
\* object with nst and p_sim (Knox, Knox_Local); with permutations = 0, knox
\* gives a dictionary of stat alone, Knox and Knox_Local an object with nst and
\* no p_sim, and mantel, jacquez and modified_knox the bare statistic.
C9_ResultShape ==
    Returned =>
        IF call.test \in {"Knox", "Knox_Local"}
        THEN /\ out.kind = "object"
             /\ "nst" \in DOMAIN out.attrs
             /\ "p_sim" \in DOMAIN out.attrs <=> call.permutations > 0
        ELSE IF call.permutations > 0
        THEN out.kind = "dict" /\ DOMAIN out.fields = {"stat", "pvalue"}
        ELSE IF call.test = "knox"
        THEN out.kind = "dict" /\ DOMAIN out.fields = {"stat"}
        ELSE out.kind = "bare" /\ out.value = results.stat

\* mantel called without permutations on three events that are not collinear
\* in distance (pearsonr gives a numpy double on every release) returned its
\* statistic
C9_Witness ==
    /\ Returned
    /\ call.test = "mantel"
    /\ call.permutations = 0
    /\ out.kind = "bare"
    /\ ~PearsonMayBeFloat(out.value)

\* C10: a test called with fewer than 2 events ends in an error and never
\* returns a result.
C10_TooFewEventsRaise ==
    (pc = "done" /\ NEvents < 2) => out.kind = "error"

\* the pairs of events the thresholds make neighbors in space and in time
SpaceTimePairs == {pr \in AllPairs : SpaceClose(pr) /\ TimeClose(pr)}
ZeroThreshold == call.delta <= 0 \/ call.tau <= 0

\* C11: for n >= 2, if delta <= 0 or tau <= 0 the global Knox test reports
\* the degenerate result, observed NST = 0.
C11_ZeroThresholdNoPairs ==
    (call.test = "Knox" /\ pc = "done" /\ NEvents >= 2 /\ ZeroThreshold) =>
        /\ out.attrs.nst = 0
        /\ out.attrs.observed[0][0] = Int2R(0)

\* the ordered pairs (i, j) with j in both k-NN sets of i
SharedNeighborPairs(nnt, nns) ==
    {pr \in (DOMAIN nns) \X (DOMAIN nns) : pr[2] \in nns[pr[1]] /\ pr[2] \in nnt[pr[1]]}
JacquezRunning == call.test = "jacquez" /\ pc # "call" /\ loc # <<>>
\* the k-NN sets have k members and leave the event itself out
KnnSetsOfSizeK(nn) ==
    \A i \in DOMAIN nn : Cardinality(nn[i]) = call.k /\ i \notin nn[i]
\* the statistic computed last: the observed one before the first trial
JacquezLastStat == IF loc.dist = <<>> THEN results.stat ELSE loc.dist[Len(loc.dist)]
C12_Counts ==
    JacquezRunning =>
        /\ KnnSetsOfSizeK(loc.nns)
        /\ KnnSetsOfSizeK(loc.nnt)
        /\ results.stat \in 0..(NEvents * call.k)
        /\ \A p \in DOMAIN loc.dist : loc.dist[p] \in 0..(NEvents * call.k)
        /\ JacquezLastStat = Cardinality(SharedNeighborPairs(loc.nnt, loc.nns))
C12_SpatialSetsFixed == JacquezRunning => loc'.nns = loc.nns

\* C12: with k-NN sets of size k (self excluded) the Jacquez statistic and
\* every permuted statistic is a whole number in 0..n*k, namely the number of
\* ordered pairs (i, j) with j in the spatial and the temporal k-NN set of i,
\* and the spatial sets stay the same through all permutation trials.
C12_JacquezCountsSharedNeighbors == [](C12_Counts) /\ [][C12_SpatialSetsFixed]_vars

\* three events, k = 1: one event shares its nearest neighbor in space and
\* time, and the one trial made all three do so
C12_Witness ==
    /\ call.test = "jacquez"
    /\ pc = "done"
    /\ NEvents = 3
    /\ call.k = 1
    /\ out.kind = "dict"
    /\ out.fields.stat = 1
    /\ loc.dist = <<3>>

\* the entries of the kept distribution that reach the observed statistic
SimReaching(sim, nst) == {p \in DOMAIN sim : sim[p][1] * nst[2] >= nst[1] * sim[p][2]}
C13_Result ==
    (Returned /\ call.test = "Knox" /\ call.permutations > 0) =>
        /\ results.exceedence \in 0..call.permutations
        /\ out.attrs.p_sim = <<results.exceedence + 1, call.permutations + 1>>
        /\ call.keep =>
              /\ "sim" \in DOMAIN out.attrs
              /\ Len(out.attrs.sim) = call.permutations
              /\ results.exceedence = Cardinality(SimReaching(out.attrs.sim, results.nst))
        /\ ~call.keep => "sim" \notin DOMAIN out.attrs
\* a trial adds one to E exactly when its statistic reaches the observed one
\* and, with keep, writes that statistic behind those of the earlier trials
C13_Trial ==
    (call.test = "Knox" /\ pc = "_knox.loop" /\ loc'.perm = loc.perm + 1) =>
        \E rids \in RandomPermutations(NEvents) :
            LET st == Frac(_knox_trial_st(results.sneighbors, results.tneighbors, rids), 2)
                reached == st[1] * results.nst[2] >= results.nst[1] * st[2]
            IN  /\ loc'.exceedence = loc.exceedence + (IF reached THEN 1 ELSE 0)
                /\ loc.keep => (loc'.ST = Append(loc.ST, st) /\ Len(loc'.ST) = loc'.perm)
                /\ ~loc.keep => loc'.ST = <<>>

\* C13: for Knox with permutations = P > 0, p_sim = (E + 1)/(P + 1), E being
\* the number of trials whose permuted NST is >= the observed NST; with keep
\* the distribution sim has P entries, one per trial in trial order, E of
\* which are >= nst; without keep no distribution is exposed.
C13_KnoxPSimFromTrials == [](C13_Result) /\ [][C13_Trial]_vars

\* two kept trials: the first reached the observed statistic, the second
\* fell short of it, and E counts the first alone
C13_Witness ==
    /\ Returned
    /\ call.test = "Knox"
    /\ call.keep
    /\ call.permutations = 2
    /\ out.attrs.nst = 1
    /\ out.attrs.sim = <<Int2R(1), Int2R(0)>>
    /\ results.exceedence = 1
    /\ out.attrs.p_sim = <<2, 3>>

IsLabeling(r) == DOMAIN r = Ids(NEvents) /\ {r[x] : x \in DOMAIN r} = Ids(NEvents)
LocalTrialDone == call.test = "Knox_Local" /\ pc # "call" /\ "drawn" \in DOMAIN loc /\ loc.perm > 0

\* C14: in every trial of the local Knox test and for every focal unit i, the
\* labeling used for i's statistic is a permutation of 0..n-1 with rids[i] = i
\* that differs from the drawn permutation at most at i and at the position
\* that held label i (one transposition); the restore step gives back the
\* drawn permutation, so every focal unit starts from it, also when the drawn
\* permutation already has rids[i] = i.
C14_SwapAndRestore ==
    LocalTrialDone =>
        /\ IsLabeling(loc.drawn)
        /\ \A i \in Ids(NEvents) :
              LET held == CHOOSE x \in Ids(NEvents) : loc.drawn[x] = i
                  used == loc.rids[i].used
              IN  /\ loc.rids[i].found = loc.drawn
                  /\ IsLabeling(used)
                  /\ used[i] = i
                  /\ used[held] = loc.drawn[i]
                  /\ \A x \in Ids(NEvents) \ {i, held} : used[x] = loc.drawn[x]
                  /\ loc.rids[i].left = loc.drawn
                  /\ call.keep =>
                        loc.STI[i][loc.perm] =
                            Cardinality({x \in results.sneighbors[i] :
                                            used[x] \in results.tneighbors[i]})

\* a trial that drew (0, 2, 1): unit 0 already had its own label, units 1 and
\* 2 had to be swapped
C14_Witness ==
    /\ LocalTrialDone
    /\ pc = "_knox_local.ret"
    /\ NEvents = 3
    /\ loc.drawn = Arr3(0, 2, 1)
    /\ loc.rids[0].used = Arr3(0, 2, 1)
    /\ loc.rids[1].used = Arr3(0, 1, 2)
    /\ loc.rids[2].left = Arr3(0, 2, 1)

\* the events within both thresholds of event i, straight from the coordinates
SpaceTimeNeighbors(i) ==
    {j \in Ids(NEvents) \ {i} :
        /\ SqDist(call.s[i], call.s[j]) <= call.delta * call.delta
        /\ Abs(call.t[i] - call.t[j]) <= call.tau}
LocalStatsAre(nsti) ==
    /\ DOMAIN nsti = Ids(NEvents)
    /\ \A i \in Ids(NEvents) : nsti[i] = Cardinality(SpaceTimeNeighbors(i))
    /\ Int2R(SumF(nsti, DOMAIN nsti)) = RMul(Int2R(2), results.nst)

\* C15: the local Knox statistic of unit i is the size of S(i) \cap T(i), each
\* space-time pair counts once for each of its two ends, and the local
\* statistics sum to twice the global statistic.
C15_LocalStatsSumToTwiceGlobal ==
    /\ KnoxTablesBuilt => LocalStatsAre(nstiOf(results.st_pairs, NEvents))
    /\ (KnoxTablesBuilt /\ "nsti" \in DOMAIN results) => LocalStatsAre(results.nsti)
    /\ (Returned /\ call.test = "Knox_Local") =>
           /\ out.attrs.nsti = results.nsti
           /\ SumF(out.attrs.nsti, Ids(NEvents)) = 2 * out.attrs.nst

\* three events, the middle one a space-time neighbor of both others
C15_Witness ==
    /\ Returned
    /\ call.test = "Knox_Local"
    /\ out.attrs.nsti = Arr3(1, 2, 1)
    /\ out.attrs.nst = 2

KnoxTrials == call.test \in {"Knox", "Knox_Local"} /\ pc = "_knox.loop"
\* the pairs close in space whose labels under r are close in time
RelabeledPairs(r) ==
    {pr \in AllPairs : SpaceClose(pr) /\ Abs(call.t[r[pr[1]]] - call.t[r[pr[2]]]) <= call.tau}
MinOf(x, y) == IF x <= y THEN x ELSE y
TrialBound == MinOf(IntOf(results.ns), IntOf(results.nt))
C16_Statistic ==
    KnoxTrials =>
        /\ \A r \in RandomPermutations(NEvents) :
              LET st == _knox_trial_st(results.sneighbors, results.tneighbors, r)
              IN  /\ st % 2 = 0
                  /\ st \div 2 = Cardinality(RelabeledPairs(r))
                  /\ st \div 2 \in 0..TrialBound
                  /\ (\A i \in Ids(NEvents) : r[i] = i) => Frac(st, 2) = results.nst
        /\ \A p \in DOMAIN loc.ST :
              loc.ST[p][2] = 1 /\ loc.ST[p][1] \in 0..TrialBound
C16_SetsKept ==
    KnoxTrials =>
        /\ results'.sneighbors = results.sneighbors
        /\ results'.tneighbors = results.tneighbors

\* C16: in a trial of the global Knox test with drawn permutation r the
\* statistic is the number of unordered pairs {i, j} with j in S(i) and r(j)
\* in T(r(i)), S and T being the neighbor sets computed before the loop; the
\* sum over the units is even, the statistic is a whole number between 0 and
\* min(NS, NT), and the identity permutation gives the observed NST.
C16_TrialCountsRelabeledPairs == [](C16_Statistic) /\ [][C16_SetsKept]_vars

\* a trial whose statistic, 2 = min(NS, NT), is above the observed NST = 1
C16_Witness ==
    /\ KnoxTrials
    /\ call.test = "Knox"
    /\ NEvents = 3
    /\ results.ns = Int2R(2)
    /\ results.nt = Int2R(2)
    /\ results.nst = Int2R(1)
    /\ loc.ST = <<Int2R(2)>>

MatrixTests == call.test \in {"mantel", "modified_knox"} /\ pc # "call" /\ loc # <<>>
\* the temporal distance matrix the test holds and the one shuffled last
HeldTimeMatrix == IF call.test = "mantel" THEN loc.timemat ELSE loc.tdistmat
LastShuffled == IF call.test = "mantel" THEN loc.trand ELSE loc.rtdistmat
\* the temporal distances straight from the time stamps
TimeDistance(a, b) == Abs(call.t[a] - call.t[b])
OffDiagonal == {pr \in Ids(NEvents) \X Ids(NEvents) : pr[1] # pr[2]}
C17_Shuffled ==
    (MatrixTests /\ LastShuffled # <<>>) =>
        /\ \E p \in RandomPermutations(NEvents) :
              \A a, b \in Ids(NEvents) : LastShuffled[a][b] = TimeDistance(p[a], p[b])
        /\ \A a, b \in Ids(NEvents) : LastShuffled[a][b] = LastShuffled[b][a]
        /\ \A a \in Ids(NEvents) : LastShuffled[a][a] = 0
        /\ \A v \in 0..MaxT :
              Cardinality({pr \in OffDiagonal : LastShuffled[pr[1]][pr[2]] = v}) =
              Cardinality({pr \in OffDiagonal : TimeDistance(pr[1], pr[2]) = v})
C17_OriginalHeld ==
    MatrixTests => \A a, b \in Ids(NEvents) : HeldTimeMatrix[a][b] = TimeDistance(a, b)
C17_OriginalKept ==
    (MatrixTests /\ pc' # "call") =>
        IF call.test = "mantel" THEN loc'.timemat = loc.timemat
        ELSE loc'.tdistmat = loc.tdistmat

\* C17: a permutation trial of mantel and of modified_knox applies one
\* permutation p to the rows and the columns of the original temporal distance
\* matrix, M'[a][b] = M[p(a)][p(b)]: M' is symmetric with a zero diagonal and
\* the same off-diagonal entries, and the original matrix stays as it was, so
\* every trial relabels the original.
C17_JointRowColumnShuffle ==
    [](C17_Shuffled) /\ [](C17_OriginalHeld) /\ [][C17_OriginalKept]_vars

\* the second trial of a mantel call on time stamps 0, 0, 2 moved a distance
\* of 2 to the place of the distance 0
C17_Witness ==
    /\ MatrixTests
    /\ call.test = "mantel"
    /\ NEvents = 3
    /\ loc.timemat[1][0] = 0
    /\ Len(loc.dist) = 2
    /\ loc.trand[1][0] = 2
    /\ loc.trand[2][1] = 0

\* C18: for n >= 2, delta > 0 and tau > 0 the legacy knox returns a result
\* whose stat is the number of unordered pairs within delta in space and tau
\* in time (the nst of Knox on the same inputs), 0 included when no two events
\* are within delta of each other.
C18_KnoxReturnsPairCount ==
    (call.test = "knox" /\ pc = "done" /\ NEvents >= 2 /\ call.delta > 0 /\ call.tau > 0) =>
        /\ out.kind = "dict"
        /\ out.fields.stat = Cardinality(SpaceTimePairs)
        /\ Int2R(out.fields.stat) =
               _knox_results(call.s, call.t, call.delta, call.tau).nst
====
